---- MODULE Spec2Model ----
(***************************************************************************)
(* A model of the Cryptocurrency Market API: the pagination helpers of     *)
(* src/utils/pagination.py, the CoinGecko gateway of                       *)
(* src/services/coingecko_service.py and the request handlers of           *)
(* src/main.py.                                                            *)
(*                                                                         *)
(* JSON values (upstream payloads, response bodies) are tagged records, so *)
(* that values of different Python types are never confused:               *)
(*   JNull, JNum(n), JStr(s), JList(xs), JDict(d)                          *)
(* where d is a function from key strings to JSON values.                  *)
(***************************************************************************)
EXTENDS Integers, Sequences, FiniteSets, TLC

VARIABLES
    pc,      \* position of the request being served: "idle", "awaiting", "done"
    op,      \* the handler serving it
    req,     \* the inbound request's raw parameters
    args,    \* the parameters the handler passed to the gateway
    calls,   \* upstream calls issued for this request, in order
    replies, \* the provider's outcome of each upstream call, in order
    ret,     \* what the gateway operation returned or raised
    resp,    \* the HTTP response sent to the caller
    fin,     \* arguments of a direct call of a pagination helper
    fout,    \* what that call returned
    service  \* the fields of the gateway singleton every request reads

vars == <<pc, op, req, args, calls, replies, ret, resp, fin, fout, service>>

(***************************************************************************)
(* Bounds of the model.                                                    *)
(***************************************************************************)
MaxPage == 3          \* largest raw page number tried
MaxSmallPerPage == 3  \* largest small raw per_page tried
MaxItems == 4         \* longest short upstream list / local sequence
MaxSlicePage == 4     \* largest page handed to paginate_response
MaxSlicePerPage == 3  \* largest per_page handed to paginate_response

(***************************************************************************)
(* Program constants.                                                      *)
(***************************************************************************)
DEFAULT_PAGE == 1
DEFAULT_PER_PAGE == 10
MAX_PER_PAGE == 100
FALLBACK_PER_PAGE == 10
REQUEST_TIMEOUT == 200

(***************************************************************************)
(* JSON values and the Python operations the code applies to them.         *)
(***************************************************************************)
JNull == [t |-> "null"]
JNum(n) == [t |-> "num", n |-> n]
JStr(s) == [t |-> "str", s |-> s]
JList(xs) == [t |-> "list", xs |-> xs]
JDict(d) == [t |-> "dict", d |-> d]

EmptyDict == JDict(<<>>)

\* Python truthiness: None, 0, "", [] and {} are false.
Truthy(j) ==
    CASE j.t = "null" -> FALSE
      [] j.t = "num" -> j.n # 0
      [] j.t = "str" -> j.s # ""
      [] j.t = "list" -> j.xs # <<>>
      [] j.t = "dict" -> DOMAIN j.d # {}

\* dict.get(key, default); only a dict has .get (anything else raises
\* AttributeError, see HasGet).
HasGet(j) == j.t = "dict"
Get(j, key, default) == IF key \in DOMAIN j.d THEN j.d[key] ELSE default

PyMax(a, b) == IF a >= b THEN a ELSE b
PyMin(a, b) == IF a <= b THEN a ELSE b

\* A slice bound as Python normalises it for a sequence of length n:
\* negative bounds count from the end, and all bounds are clamped to 0..n.
SliceIndex(i, n) == IF i < 0 THEN PyMax(n + i, 0) ELSE PyMin(i, n)

\* s[lo:hi] on a Python list (0-based, hi exclusive, never raises).
PySlice(s, lo, hi) ==
    LET a == SliceIndex(lo, Len(s))
        b == SliceIndex(hi, Len(s))
    IN  IF a < b THEN SubSeq(s, a + 1, b) ELSE <<>>

(***************************************************************************)
(* src/utils/pagination.py                                                 *)
(***************************************************************************)
\* per_page < 1 is reset to 1 (a clamp) instead of the fallback 10.
validate_pagination_params_clamp(page, per_page, max_per_page) ==
    LET p1 == PyMax(page, 1)
        pp1 == IF per_page < 1 THEN 1 ELSE per_page
    IN  <<p1, PyMin(pp1, max_per_page)>>

validate_pagination_params(page, per_page, max_per_page) ==
    LET p1 == PyMax(page, 1)
        pp1 == IF per_page < 1 THEN FALLBACK_PER_PAGE ELSE per_page
        pp2 == PyMin(pp1, max_per_page)
    IN  <<p1, pp2>>

\* start index taken as page * per_page (pages counted from 0).
paginate_response_zero_based(items, page, per_page) ==
    LET total_items == Len(items)
        start_idx == page * per_page
        end_idx == start_idx + per_page
    IN  [page |-> page, per_page |-> per_page, total |-> total_items,
         items |-> IF start_idx < total_items
                   THEN PySlice(items, start_idx, end_idx) ELSE <<>>]

paginate_response(items, page, per_page) ==
    LET total_items == Len(items)
        start_idx == (page - 1) * per_page
        end_idx == start_idx + per_page
        paginated_items == IF start_idx < total_items
                           THEN PySlice(items, start_idx, end_idx)
                           ELSE <<>>
    IN  [page |-> page, per_page |-> per_page, total |-> total_items,
         items |-> paginated_items]

\* The state of the server when no request is being served.
NoReq == [tag |-> "none"]
NoArgs == [tag |-> "none"]
NoRet == [tag |-> "none"]
NoResp == [tag |-> "none"]
NoCall == [fn |-> "none"]
NoOut == [tag |-> "none"]

\* The gateway singleton as CoinGeckoService.__init__ leaves it.
ServiceConfig ==
    [base_url |-> "https://api.coingecko.com/api/v3", default_currency |-> "cad",
     api_key |-> "key", headers |-> [X_CG_Demo_API_Key |-> "key"]]

ServerIdle ==
    /\ service = ServiceConfig
    /\ pc = "idle"
    /\ op = "none"
    /\ req = NoReq
    /\ args = NoArgs
    /\ calls = <<>>
    /\ replies = <<>>
    /\ ret = NoRet
    /\ resp = NoResp

serverVars == <<pc, op, req, args, calls, replies, ret, resp, service>>

(***************************************************************************)
(* Direct calls of validate_pagination_params with the endpoint's maximum. *)
(***************************************************************************)
NormPages == (0 - MaxPage)..MaxPage
NormPerPages == ((0 - MaxSmallPerPage)..MaxSmallPerPage)
                    \cup ((MAX_PER_PAGE - 1)..(MAX_PER_PAGE + MaxSmallPerPage))
                    \cup {FALLBACK_PER_PAGE - 1, FALLBACK_PER_PAGE, FALLBACK_PER_PAGE + 1}

NormInit ==
    /\ ServerIdle
    /\ fin \in [fn : {"validate_pagination_params"}, page : NormPages,
                per_page : NormPerPages, max_per_page : {MAX_PER_PAGE}]
    /\ fout = NoOut

NormCall ==
    /\ fin.fn = "validate_pagination_params"
    /\ fout = NoOut
    /\ LET r == validate_pagination_params(fin.page, fin.per_page, fin.max_per_page)
       IN  fout' = [tag |-> "ret", page |-> r[1], per_page |-> r[2]]
    /\ UNCHANGED <<serverVars, fin>>

NormNext == NormCall

SpecNorm == NormInit /\ [][NormNext]_vars

(***************************************************************************)
(* Direct calls of paginate_response on a locally held sequence.           *)
(***************************************************************************)
SliceElems == {"a", "b"}
SliceSeqs == UNION {[1..n -> SliceElems] : n \in 0..MaxItems}

SliceInit ==
    /\ ServerIdle
    /\ fin \in [fn : {"paginate_response"}, items : SliceSeqs,
                page : 0..MaxSlicePage, per_page : 0..MaxSlicePerPage]
    /\ fout = NoOut

SliceCall ==
    /\ fin.fn = "paginate_response"
    /\ fout = NoOut
    /\ LET r == paginate_response(fin.items, fin.page, fin.per_page)
       IN  fout' = [tag |-> "ret", page |-> r.page, per_page |-> r.per_page,
                    total |-> r.total, items |-> r.items]
    /\ UNCHANGED <<serverVars, fin>>

SliceNext == SliceCall

SpecSlice == SliceInit /\ [][SliceNext]_vars

(***************************************************************************)
(* Fixed configuration of the gateway (CoinGeckoService.__init__).         *)
(***************************************************************************)
default_currency == service.default_currency

(***************************************************************************)
(* What the provider can do with one upstream call: the outcome of         *)
(* requests.get, raise_for_status and response.json() together.            *)
(*   ok                : a 2xx answer whose body parsed to json            *)
(*   http_error        : raise_for_status raised HTTPError (4xx/5xx)       *)
(*   request_exception : any other requests.RequestException (connection   *)
(*                       error, the timeout expiring)                      *)
(*   bad_json          : the body is not JSON; response.json() raises      *)
(*                       JSONDecodeError, a RequestException in requests   *)
(*                       >= 2.27 and a plain ValueError before that        *)
(*   exception         : any exception that is not a RequestException      *)
(***************************************************************************)
OkOutcome(j) == [kind |-> "ok", json |-> j]

HttpErrorStatuses == {400, 404, 429, 500, 503}

ErrorOutcomes ==
    {[kind |-> "http_error", status |-> s, msg |-> ToString(s) \o " Error"] :
        s \in HttpErrorStatuses}
    \cup {[kind |-> "request_exception", msg |-> m] :
            m \in {"Network error", "Read timed out"}}
    \cup {[kind |-> "bad_json", is_request_exception |-> b,
           msg |-> "Expecting value"] : b \in BOOLEAN}
    \cup {[kind |-> "exception", msg |-> "Test exception"]}

(***************************************************************************)
(* fastapi.HTTPException and the three ways a gateway step can end.        *)
(***************************************************************************)
HTTPException(status_code, detail) ==
    [tag |-> "http_exception", status_code |-> status_code, detail |-> detail]
Exception(msg) == [tag |-> "exception", msg |-> msg]
Return(val) == [tag |-> "return", val |-> val]

RateLimitDetail == "Rate limit exceeded. Please try again later."

\* The upstream call as requests.get receives it.
UpstreamCall(endpoint, params) ==
    [endpoint |-> endpoint, params |-> params, timeout |-> REQUEST_TIMEOUT]
NoParams == [none |-> TRUE]

\* A 429 is passed on with the upstream status and message like any other
\* HTTP error (no dedicated rate-limit error).
make_request_no_rate_limit(o) ==
    CASE o.kind = "ok" -> Return(o.json)
      [] o.kind = "http_error" -> HTTPException(o.status, o.msg)
      [] o.kind = "request_exception" ->
            HTTPException(503, "Error fetching data from CoinGecko: " \o o.msg)
      [] o.kind = "bad_json" ->
            IF o.is_request_exception
            THEN HTTPException(503, "Error fetching data from CoinGecko: " \o o.msg)
            ELSE Exception(o.msg)
      [] o.kind = "exception" -> Exception(o.msg)

\* Every HTTP error is reported as 503, the upstream status is dropped.
make_request_status_dropped(o) ==
    CASE o.kind = "ok" -> Return(o.json)
      [] o.kind = "http_error" ->
            IF o.status = 429
            THEN HTTPException(429, RateLimitDetail)
            ELSE HTTPException(503, o.msg)
      [] o.kind = "request_exception" ->
            HTTPException(503, "Error fetching data from CoinGecko: " \o o.msg)
      [] o.kind = "bad_json" ->
            IF o.is_request_exception
            THEN HTTPException(503, "Error fetching data from CoinGecko: " \o o.msg)
            ELSE Exception(o.msg)
      [] o.kind = "exception" -> Exception(o.msg)

\* The RequestException handler is missing: transport failures escape as
\* plain exceptions.
make_request_no_transport_handler(o) ==
    CASE o.kind = "ok" -> Return(o.json)
      [] o.kind = "http_error" ->
            IF o.status = 429
            THEN HTTPException(429, RateLimitDetail)
            ELSE HTTPException(o.status, o.msg)
      [] o.kind = "request_exception" -> Exception(o.msg)
      [] o.kind = "bad_json" -> Exception(o.msg)
      [] o.kind = "exception" -> Exception(o.msg)

\* CoinGeckoService._make_request, given the outcome o of the upstream call.
make_request(o) ==
    CASE o.kind = "ok" -> Return(o.json)
      [] o.kind = "http_error" ->
            IF o.status = 429
            THEN HTTPException(429, RateLimitDetail)
            ELSE HTTPException(o.status, o.msg)
      [] o.kind = "request_exception" ->
            HTTPException(503, "Error fetching data from CoinGecko: " \o o.msg)
      [] o.kind = "bad_json" ->
            IF o.is_request_exception
            THEN HTTPException(503, "Error fetching data from CoinGecko: " \o o.msg)
            ELSE Exception(o.msg)
      [] o.kind = "exception" -> Exception(o.msg)

(***************************************************************************)
(* Reshaping of one coins/markets item (get_coins_list and                 *)
(* get_coins_by_category build the same dict).                             *)
(***************************************************************************)
CoinFields == {"id", "symbol", "name", "current_price", "market_cap",
               "market_cap_rank", "price_change_24h",
               "price_change_percentage_24h"}

ReshapeCoin(coin) == JDict([k \in CoinFields |-> Get(coin, k, JNull)])

\* Iterating / slicing a payload: a list gives its items, a string its
\* characters; a dict gives its keys when iterated.
Chars(s) == [i \in 1..Len(s) |-> JStr(SubSeq(s, i, i))]
RECURSIVE SetToSeq(_)
SetToSeq(S) == IF S = {} THEN <<>>
               ELSE LET x == CHOOSE y \in S : TRUE
                    IN  <<x>> \o SetToSeq(S \ {x})
Keys(d) == LET ks == SetToSeq(DOMAIN d) IN [i \in 1..Len(ks) |-> JStr(ks[i])]

Sliceable(j) == j.t \in {"list", "str"}
Iterable(j) == j.t \in {"list", "str", "dict"}
Elements(j) ==
    CASE j.t = "list" -> j.xs
      [] j.t = "str" -> Chars(j.s)
      [] j.t = "dict" -> Keys(j.d)

(***************************************************************************)
(* CoinGeckoService.get_coins_list                                         *)
(***************************************************************************)
\* The provider is asked for per_page items, without the extra one.
get_coins_list_call_no_overfetch(page, per_page) ==
    UpstreamCall("coins/markets",
        [vs_currency |-> default_currency, order |-> "market_cap_desc",
         per_page |-> per_page, page |-> page, sparkline |-> FALSE])

get_coins_list_call(page, per_page) ==
    UpstreamCall("coins/markets",
        [vs_currency |-> default_currency, order |-> "market_cap_desc",
         per_page |-> per_page + 1, page |-> page, sparkline |-> FALSE])

\* The local truncation data[:per_page] is missing.
get_coins_list_untruncated(page, per_page, o) ==
    LET r == make_request(o) IN
    CASE r.tag = "http_exception" -> r
      [] r.tag = "exception" ->
            HTTPException(500, "Internal server error: " \o r.msg)
      [] r.tag = "return" ->
            LET data == r.val IN
            IF ~Truthy(data) THEN Return(<<>>)
            ELSE IF ~Iterable(data)
            THEN HTTPException(500, "Internal server error: TypeError")
            ELSE LET page_items == Elements(data) IN
                 IF \E i \in DOMAIN page_items : ~HasGet(page_items[i])
                 THEN HTTPException(500, "Internal server error: AttributeError")
                 ELSE Return([i \in DOMAIN page_items |-> ReshapeCoin(page_items[i])])

\* The unexpected-failure handler reports 503 instead of 500.
get_coins_list_unexpected_503(page, per_page, o) ==
    LET r == make_request(o) IN
    CASE r.tag = "http_exception" -> r
      [] r.tag = "exception" ->
            HTTPException(503, "Internal server error: " \o r.msg)
      [] r.tag = "return" ->
            LET data == r.val IN
            IF ~Truthy(data) THEN Return(<<>>)
            ELSE IF ~Sliceable(data)
            THEN HTTPException(503, "Internal server error: TypeError")
            ELSE LET page_items == PySlice(Elements(data), 0, per_page) IN
                 IF \E i \in DOMAIN page_items : ~HasGet(page_items[i])
                 THEN HTTPException(503, "Internal server error: AttributeError")
                 ELSE Return([i \in DOMAIN page_items |-> ReshapeCoin(page_items[i])])

\* The result of get_coins_list(page, per_page) when its upstream call ends
\* with outcome o.
get_coins_list(page, per_page, o) ==
    LET r == make_request(o) IN
    CASE r.tag = "http_exception" -> r
      [] r.tag = "exception" ->
            HTTPException(500, "Internal server error: " \o r.msg)
      [] r.tag = "return" ->
            LET data == r.val IN
            IF ~Truthy(data) THEN Return(<<>>)
            ELSE IF ~Sliceable(data)
            THEN HTTPException(500, "Internal server error: TypeError")
            ELSE LET page_items == PySlice(Elements(data), 0, per_page) IN
                 IF \E i \in DOMAIN page_items : ~HasGet(page_items[i])
                 THEN HTTPException(500, "Internal server error: AttributeError")
                 ELSE Return([i \in DOMAIN page_items |-> ReshapeCoin(page_items[i])])

(***************************************************************************)
(* Category.from_coingecko (src/models/coin.py) and                        *)
(* CoinGeckoService.get_coin_categories                                    *)
(***************************************************************************)
\* The two arguments Category(...) is constructed with.
CategoryArgs(entry) ==
    [id |-> Get(entry, "category_id", JStr("")), name |-> Get(entry, "name", JStr(""))]

\* pydantic accepts the construction only when both fields are strings.
CategoryValid(entry) ==
    /\ CategoryArgs(entry).id.t = "str"
    /\ CategoryArgs(entry).name.t = "str"

from_coingecko(entry) ==
    [id |-> CategoryArgs(entry).id.s, name |-> CategoryArgs(entry).name.s]

get_coin_categories_call == UpstreamCall("coins/categories/list", NoParams)

get_coin_categories(o) ==
    LET r == make_request(o) IN
    CASE r.tag = "http_exception" -> r
      [] r.tag = "exception" ->
            HTTPException(500, "Internal server error: " \o r.msg)
      [] r.tag = "return" ->
            LET data == r.val IN
            IF data.t # "list" THEN Return(<<>>)
            ELSE LET records == SelectSeq(data.xs, HasGet) IN
                 IF \E i \in DOMAIN records : ~CategoryValid(records[i])
                 THEN HTTPException(500, "Internal server error: ValidationError")
                 ELSE Return([i \in DOMAIN records |-> from_coingecko(records[i])])

(***************************************************************************)
(* CoinGeckoService.get_coin_by_id                                         *)
(***************************************************************************)
get_coin_by_id_call(coin_id) ==
    UpstreamCall("coins/" \o coin_id,
        [vs_currency |-> default_currency, localization |-> FALSE,
         tickers |-> FALSE, market_data |-> TRUE, community_data |-> FALSE,
         developer_data |-> FALSE, sparkline |-> FALSE])

\* Whether building the detail dict raises nothing: every value that .get
\* is called on must be a dict.
CoinDetailReshapes(data) ==
    /\ HasGet(data)
    /\ HasGet(Get(data, "market_data", EmptyDict))
    /\ HasGet(Get(Get(data, "market_data", EmptyDict), "current_price", EmptyDict))
    /\ HasGet(Get(Get(data, "market_data", EmptyDict), "market_cap", EmptyDict))
    /\ HasGet(Get(data, "links", EmptyDict))

\* The price and market cap are read for a hard-wired "usd" instead of the
\* configured default currency.
ReshapeCoinDetail_usd(data) ==
    LET md == Get(data, "market_data", EmptyDict)
        links == Get(data, "links", EmptyDict)
    IN  JDict(
        [id |-> Get(data, "id", JNull),
         symbol |-> Get(data, "symbol", JNull),
         name |-> Get(data, "name", JNull),
         current_price |-> Get(Get(md, "current_price", EmptyDict), "usd", JNull),
         market_cap |-> Get(Get(md, "market_cap", EmptyDict), "usd", JNull),
         market_cap_rank |-> Get(data, "market_cap_rank", JNull),
         price_change_24h |-> Get(md, "price_change_24h", JNull),
         price_change_percentage_24h |->
            Get(md, "price_change_percentage_24h", JNull),
         description |-> Get(data, "description", JNull),
         categories |-> Get(data, "categories", JNull),
         links |-> JDict(
            [homepage |-> Get(links, "homepage", JList(<<>>)),
             blockchain_site |-> Get(links, "blockchain_site", JList(<<>>)),
             official_forum_url |-> Get(links, "official_forum_url", JList(<<>>))])])

ReshapeCoinDetail(data) ==
    LET md == Get(data, "market_data", EmptyDict)
        links == Get(data, "links", EmptyDict)
    IN  JDict(
        [id |-> Get(data, "id", JNull),
         symbol |-> Get(data, "symbol", JNull),
         name |-> Get(data, "name", JNull),
         current_price |->
            Get(Get(md, "current_price", EmptyDict), default_currency, JNull),
         market_cap |->
            Get(Get(md, "market_cap", EmptyDict), default_currency, JNull),
         market_cap_rank |-> Get(data, "market_cap_rank", JNull),
         price_change_24h |-> Get(md, "price_change_24h", JNull),
         price_change_percentage_24h |->
            Get(md, "price_change_percentage_24h", JNull),
         description |-> Get(data, "description", JNull),
         categories |-> Get(data, "categories", JNull),
         links |-> JDict(
            [homepage |-> Get(links, "homepage", JList(<<>>)),
             blockchain_site |-> Get(links, "blockchain_site", JList(<<>>)),
             official_forum_url |-> Get(links, "official_forum_url", JList(<<>>))])])

\* The unexpected-failure handler reports 500, as the other operations do.
get_coin_by_id_unexpected_500(coin_id, o) ==
    LET r == make_request(o) IN
    CASE r.tag = "http_exception" -> r
      [] r.tag = "exception" -> HTTPException(500, "Coin not found: " \o coin_id)
      [] r.tag = "return" ->
            IF CoinDetailReshapes(r.val)
            THEN Return(ReshapeCoinDetail(r.val))
            ELSE HTTPException(500, "Coin not found: " \o coin_id)

get_coin_by_id(coin_id, o) ==
    LET r == make_request(o) IN
    CASE r.tag = "http_exception" -> r
      [] r.tag = "exception" -> HTTPException(404, "Coin not found: " \o coin_id)
      [] r.tag = "return" ->
            IF CoinDetailReshapes(r.val)
            THEN Return(ReshapeCoinDetail(r.val))
            ELSE HTTPException(404, "Coin not found: " \o coin_id)

(***************************************************************************)
(* CoinGeckoService.get_coins_by_category: the category-metadata call,     *)
(* then (for a non-empty metadata payload) the coins/markets call.         *)
(***************************************************************************)
category_meta_call(category_id) ==
    UpstreamCall("coins/categories/" \o category_id, NoParams)

\* The category listing over-fetches by one, as get_coins_list does.
category_markets_call_overfetch(category_id, page, per_page) ==
    UpstreamCall("coins/markets",
        [vs_currency |-> default_currency, category |-> category_id,
         order |-> "market_cap_desc", per_page |-> per_page + 1, page |-> page,
         sparkline |-> FALSE])

category_markets_call(category_id, page, per_page) ==
    UpstreamCall("coins/markets",
        [vs_currency |-> default_currency, category |-> category_id,
         order |-> "market_cap_desc", per_page |-> per_page, page |-> page,
         sparkline |-> FALSE])

Continue(category_data) == [tag |-> "continue", category_data |-> category_data]

\* Only a missing (None) payload counts as an absent category; an empty
\* record goes on to the coins/markets call.
get_coins_by_category_meta_none_only(category_id, o) ==
    LET r == make_request(o) IN
    CASE r.tag = "http_exception" -> r
      [] r.tag = "exception" ->
            HTTPException(500, "Error fetching category coins: " \o r.msg)
      [] r.tag = "return" ->
            IF r.val.t = "null"
            THEN Return([category |-> JStr(category_id), coins |-> <<>>])
            ELSE Continue(r.val)

\* After the metadata call ended with outcome o: raise, return the empty
\* result, or go on to the coins/markets call.
get_coins_by_category_meta(category_id, o) ==
    LET r == make_request(o) IN
    CASE r.tag = "http_exception" -> r
      [] r.tag = "exception" ->
            HTTPException(500, "Error fetching category coins: " \o r.msg)
      [] r.tag = "return" ->
            IF ~Truthy(r.val)
            THEN Return([category |-> JStr(category_id), coins |-> <<>>])
            ELSE Continue(r.val)

\* After the coins/markets call ended with outcome o.
get_coins_by_category(category_id, category_data, o) ==
    LET r == make_request(o) IN
    CASE r.tag = "http_exception" -> r
      [] r.tag = "exception" ->
            HTTPException(500, "Error fetching category coins: " \o r.msg)
      [] r.tag = "return" ->
            LET coins_data == r.val IN
            IF ~Iterable(coins_data)
            THEN HTTPException(500, "Error fetching category coins: TypeError")
            ELSE LET coins == Elements(coins_data) IN
                 IF \/ \E i \in DOMAIN coins : ~HasGet(coins[i])
                    \/ ~HasGet(category_data)
                 THEN HTTPException(500, "Error fetching category coins: AttributeError")
                 ELSE Return(
                        [category |-> Get(category_data, "name", JStr(category_id)),
                         coins |-> [i \in DOMAIN coins |-> ReshapeCoin(coins[i])]])

(***************************************************************************)
(* src/main.py: the request handlers.  FastAPI validates the query         *)
(* parameters against Query(ge=..., le=...) before the handler runs        *)
(* (answering 422 otherwise), turns a raised HTTPException into a response *)
(* with its status code and detail, and validates what the handler returns *)
(* against the endpoint's response_model (answering 500 otherwise).        *)
(***************************************************************************)
\* A query parameter is absent (JNull) or an integer (JNum).
QueryValue(q, default) == IF q.t = "null" THEN default ELSE q.n

QueryValid(r) ==
    /\ QueryValue(r.page, DEFAULT_PAGE) >= 1
    /\ QueryValue(r.per_page, DEFAULT_PER_PAGE) >= 1
    /\ QueryValue(r.per_page, DEFAULT_PER_PAGE) <= MAX_PER_PAGE

Response(status, body) == [tag |-> "response", status |-> status, body |-> body]
ErrorResponse(status, detail) ==
    [tag |-> "response", status |-> status, detail |-> detail]
ValidationFailed == ErrorResponse(500, "Internal Server Error")

OptionalNumber(j) == j.t \in {"num", "null"}

\* models.Coin
ValidCoin(c) ==
    /\ c.d.id.t = "str"
    /\ c.d.symbol.t = "str"
    /\ c.d.name.t = "str"
    /\ OptionalNumber(c.d.current_price)
    /\ OptionalNumber(c.d.market_cap)
    /\ OptionalNumber(c.d.market_cap_rank)
    /\ OptionalNumber(c.d.price_change_24h)
    /\ OptionalNumber(c.d.price_change_percentage_24h)

\* models.CoinDetail
ValidCoinDetail(c) ==
    /\ ValidCoin(c)
    /\ c.d.description.t \in {"dict", "null"}
    /\ \/ c.d.categories.t = "null"
       \/ /\ c.d.categories.t = "list"
          /\ \A i \in DOMAIN c.d.categories.xs : c.d.categories.xs[i].t = "str"

\* The synthesized total is always page * per_page.
list_coins_flat_total(page, per_page, g) ==
    IF g.tag = "http_exception" THEN ErrorResponse(g.status_code, g.detail)
    ELSE IF \E i \in DOMAIN g.val : ~ValidCoin(g.val[i]) THEN ValidationFailed
    ELSE Response(200, [page |-> page, per_page |-> per_page,
                        total |-> page * per_page, items |-> g.val])

\* list_coins after the gateway returned or raised g.
list_coins(page, per_page, g) ==
    IF g.tag = "http_exception" THEN ErrorResponse(g.status_code, g.detail)
    ELSE LET coins == g.val
             total == IF coins # <<>> THEN (page * per_page) + per_page
                      ELSE page * per_page
         IN  IF \E i \in DOMAIN coins : ~ValidCoin(coins[i]) THEN ValidationFailed
             ELSE Response(200, [page |-> page, per_page |-> per_page,
                                 total |-> total, items |-> coins])

list_categories(g) ==
    IF g.tag = "http_exception" THEN ErrorResponse(g.status_code, g.detail)
    ELSE Response(200, [categories |-> g.val])

get_coin(g) ==
    IF g.tag = "http_exception" THEN ErrorResponse(g.status_code, g.detail)
    ELSE IF ~ValidCoinDetail(g.val) THEN ValidationFailed
    ELSE Response(200, g.val)

category_coins(g) ==
    IF g.tag = "http_exception" THEN ErrorResponse(g.status_code, g.detail)
    ELSE IF \/ g.val.category.t # "str"
            \/ \E i \in DOMAIN g.val.coins : ~ValidCoin(g.val.coins[i])
    THEN ValidationFailed
    ELSE Response(200, [category |-> g.val.category.s, coins |-> g.val.coins])

(***************************************************************************)
(* The inputs: requests the callers send and payloads the provider serves. *)
(***************************************************************************)
RawPages == {JNull} \cup {JNum(n) : n \in 0..MaxPage}
RawPerPages == {JNull} \cup {JNum(n) : n \in (0..MaxSmallPerPage)
                                \cup {MAX_PER_PAGE, MAX_PER_PAGE + 1}}
CoinIds == {"bitcoin", "invalid-coin"}
CategoryIds == {"defi"}

CoinA == JDict(
    [id |-> JStr("bitcoin"), symbol |-> JStr("btc"), name |-> JStr("Bitcoin"),
     current_price |-> JNum(50000), market_cap |-> JNum(1000000),
     market_cap_rank |-> JNum(1), price_change_24h |-> JNum(1000),
     price_change_percentage_24h |-> JNum(2), image |-> JStr("btc.png")])
CoinB == JDict(
    [id |-> JStr("ethereum"), symbol |-> JStr("eth"), name |-> JStr("Ethereum"),
     current_price |-> JNum(3000), market_cap |-> JNum(500000),
     market_cap_rank |-> JNum(2), price_change_24h |-> JNull,
     price_change_percentage_24h |-> JNull, total_volume |-> JNum(7)])
CoinIdOnly == JDict([id |-> JStr("coin0")])
NotARecord == JStr("junk")

\* The k-th coin of a long listing.
RankedCoin(k) == JDict(
    [id |-> JStr("coin" \o ToString(k)), symbol |-> JStr("c"),
     name |-> JStr("Coin"), market_cap_rank |-> JNum(k)])

GoodLists == UNION {[1..n -> {CoinA, CoinB}] : n \in 0..MaxItems}
OddLists == {<<CoinIdOnly>>, <<CoinA, CoinIdOnly>>, <<NotARecord>>,
             <<CoinA, NotARecord>>, <<NotARecord, CoinB>>}
LongLists == {[k \in 1..n |-> RankedCoin(k)] :
                n \in (MAX_PER_PAGE - 1)..(MAX_PER_PAGE + 2)}

MarketsPayloads ==
    {JList(xs) : xs \in GoodLists \cup OddLists \cup LongLists}
    \cup {JNull, EmptyDict, JStr(""), JStr("oops"), JNum(0), JNum(7),
          JDict([error |-> JStr("bad request")])}

CategoryA == JDict([category_id |-> JStr("defi"), name |-> JStr("DeFi")])
CategoryNoId == JDict([name |-> JStr("NFT")])
CategoryNullId == JDict([category_id |-> JNull, name |-> JStr("Null")])

CategoryEntries == {CategoryA, CategoryNoId, CategoryNullId, NotARecord}
CategoryListPayloads ==
    {JList(xs) : xs \in UNION {[1..n -> CategoryEntries] : n \in 0..(MaxItems - 1)}}
    \cup {JNull, JStr("not a list"), EmptyDict,
          JDict([error |-> JStr("bad request")])}

CategoryMetaPayloads ==
    {JNull, EmptyDict, JList(<<>>),
     JDict([name |-> JStr("DeFi Ecosystem")]),
     JDict([id |-> JStr("defi")]),
     JList(<<JNum(1)>>), JStr("defi")}

FullLinks == JDict(
    [homepage |-> JList(<<JStr("https://bitcoin.org")>>),
     blockchain_site |-> JList(<<JStr("https://blockchain.info")>>),
     official_forum_url |-> JList(<<JStr("https://bitcointalk.org")>>)])
FullMarketData == JDict(
    [current_price |-> JDict([cad |-> JNum(50000), usd |-> JNum(37000)]),
     market_cap |-> JDict([cad |-> JNum(1000000), usd |-> JNum(740000)]),
     price_change_24h |-> JNum(1000),
     price_change_percentage_24h |-> JNum(2)])
CoinBase == [id |-> JStr("bitcoin"), symbol |-> JStr("btc"), name |-> JStr("Bitcoin")]

CoinDetailPayloads ==
    {JDict([id |-> JStr("bitcoin"), symbol |-> JStr("btc"), name |-> JStr("Bitcoin"),
            market_cap_rank |-> JNum(1), market_data |-> FullMarketData,
            links |-> FullLinks, categories |-> JList(<<JStr("Layer 1")>>),
            description |-> JDict([en |-> JStr("Bitcoin is ...")])]),
     JDict([id |-> JStr("bitcoin"), symbol |-> JStr("btc"), name |-> JStr("Bitcoin"),
            market_data |-> FullMarketData]),
     JDict([id |-> JStr("bitcoin"), symbol |-> JStr("btc"), name |-> JStr("Bitcoin"),
            market_data |-> JDict([current_price |-> JDict([usd |-> JNum(37000)]),
                                   market_cap |-> JDict([usd |-> JNum(740000)])]),
            links |-> JDict([homepage |-> JList(<<JStr("https://bitcoin.org")>>)])]),
     JDict(CoinBase),
     JDict([id |-> JStr("bitcoin"), symbol |-> JStr("btc"), name |-> JStr("Bitcoin"),
            market_data |-> JNull]),
     JDict([id |-> JStr("bitcoin"), symbol |-> JStr("btc"), name |-> JStr("Bitcoin"),
            market_data |-> JDict([current_price |-> JNull])]),
     JDict([id |-> JStr("bitcoin"), symbol |-> JStr("btc"), name |-> JStr("Bitcoin"),
            links |-> JNull]),
     EmptyDict, JNull, JList(<<>>), JStr("oops")}

Outcomes(payloads) == {OkOutcome(j) : j \in payloads} \cup ErrorOutcomes

(***************************************************************************)
(* The server: one request is served at a time, from the request's arrival *)
(* through its upstream calls to the response.                             *)
(***************************************************************************)
Init ==
    /\ ServerIdle
    /\ fin = NoCall
    /\ fout = NoOut

\* FastAPI answers 422 to out-of-range pagination parameters.
QueryRejected ==
    /\ pc = "idle"
    /\ \E path \in {"/api/v1/coins", "/api/v1/categories/{category_id}/coins"},
          qp \in RawPages, qpp \in RawPerPages :
        LET r == [tag |-> "request", path |-> path, page |-> qp, per_page |-> qpp]
        IN  /\ ~QueryValid(r)
            /\ req' = r
            /\ op' = "rejected"
            /\ resp' = ErrorResponse(422, "Unprocessable Entity")
            /\ pc' = "done"
    /\ UNCHANGED <<args, calls, replies, ret, fin, fout, service>>

\* GET /api/v1/coins up to the upstream call.
ListCoinsRequest ==
    /\ pc = "idle"
    /\ \E qp \in RawPages, qpp \in RawPerPages :
        LET r == [tag |-> "request", path |-> "/api/v1/coins",
                  page |-> qp, per_page |-> qpp]
            n == validate_pagination_params(QueryValue(qp, DEFAULT_PAGE),
                    QueryValue(qpp, DEFAULT_PER_PAGE), MAX_PER_PAGE)
        IN  /\ QueryValid(r)
            /\ req' = r
            /\ args' = [tag |-> "args", page |-> n[1], per_page |-> n[2]]
            /\ calls' = <<get_coins_list_call(n[1], n[2])>>
    /\ op' = "list_coins"
    /\ pc' = "awaiting"
    /\ UNCHANGED <<replies, ret, resp, fin, fout, service>>

\* A failed coins/markets call is retried once before the handler gives up.
ListCoinsResponse_retry ==
    /\ pc = "awaiting"
    /\ op = "list_coins"
    /\ \E o \in Outcomes(MarketsPayloads) :
        /\ replies' = Append(replies, o)
        /\ IF o.kind # "ok" /\ Len(calls) = 1
           THEN /\ calls' = Append(calls, calls[1])
                /\ pc' = "awaiting"
                /\ UNCHANGED <<ret, resp>>
           ELSE LET g == get_coins_list(args.page, args.per_page, o)
                IN  /\ ret' = g
                    /\ resp' = list_coins(args.page, args.per_page, g)
                    /\ pc' = "done"
                    /\ UNCHANGED calls
    /\ UNCHANGED <<op, req, args, fin, fout, service>>

\* The upstream call of get_coins_list ends; the handler answers.
ListCoinsResponse ==
    /\ pc = "awaiting"
    /\ op = "list_coins"
    /\ \E o \in Outcomes(MarketsPayloads) :
        LET g == get_coins_list(args.page, args.per_page, o)
        IN  /\ replies' = Append(replies, o)
            /\ ret' = g
            /\ resp' = list_coins(args.page, args.per_page, g)
    /\ pc' = "done"
    /\ UNCHANGED <<op, req, args, calls, fin, fout, service>>

\* GET /api/v1/categories up to the upstream call.
ListCategoriesRequest ==
    /\ pc = "idle"
    /\ req' = [tag |-> "request", path |-> "/api/v1/categories"]
    /\ args' = [tag |-> "args"]
    /\ calls' = <<get_coin_categories_call>>
    /\ op' = "list_categories"
    /\ pc' = "awaiting"
    /\ UNCHANGED <<replies, ret, resp, fin, fout, service>>

ListCategoriesResponse ==
    /\ pc = "awaiting"
    /\ op = "list_categories"
    /\ \E o \in Outcomes(CategoryListPayloads) :
        LET g == get_coin_categories(o)
        IN  /\ replies' = Append(replies, o)
            /\ ret' = g
            /\ resp' = list_categories(g)
    /\ pc' = "done"
    /\ UNCHANGED <<op, req, args, calls, fin, fout, service>>

\* GET /api/v1/coins/{coin_id} up to the upstream call.
GetCoinRequest ==
    /\ pc = "idle"
    /\ \E id \in CoinIds :
        /\ req' = [tag |-> "request", path |-> "/api/v1/coins/{coin_id}",
                   coin_id |-> id]
        /\ args' = [tag |-> "args", coin_id |-> id]
        /\ calls' = <<get_coin_by_id_call(id)>>
    /\ op' = "get_coin"
    /\ pc' = "awaiting"
    /\ UNCHANGED <<replies, ret, resp, fin, fout, service>>

GetCoinResponse ==
    /\ pc = "awaiting"
    /\ op = "get_coin"
    /\ \E o \in Outcomes(CoinDetailPayloads) :
        LET g == get_coin_by_id(args.coin_id, o)
        IN  /\ replies' = Append(replies, o)
            /\ ret' = g
            /\ resp' = get_coin(g)
    /\ pc' = "done"
    /\ UNCHANGED <<op, req, args, calls, fin, fout, service>>

\* GET /api/v1/categories/{category_id}/coins up to the metadata call.
CategoryCoinsRequest ==
    /\ pc = "idle"
    /\ \E id \in CategoryIds, qp \in RawPages, qpp \in RawPerPages :
        LET r == [tag |-> "request",
                  path |-> "/api/v1/categories/{category_id}/coins",
                  category_id |-> id, page |-> qp, per_page |-> qpp]
            n == validate_pagination_params(QueryValue(qp, DEFAULT_PAGE),
                    QueryValue(qpp, DEFAULT_PER_PAGE), MAX_PER_PAGE)
        IN  /\ QueryValid(r)
            /\ req' = r
            /\ args' = [tag |-> "args", category_id |-> id,
                        page |-> n[1], per_page |-> n[2]]
            /\ calls' = <<category_meta_call(id)>>
    /\ op' = "get_coins_by_category"
    /\ pc' = "awaiting"
    /\ UNCHANGED <<replies, ret, resp, fin, fout, service>>

\* The metadata call ends: the operation raises, returns the empty result,
\* or issues the coins/markets call.
CategoryMetaResponse ==
    /\ pc = "awaiting"
    /\ op = "get_coins_by_category"
    /\ Len(calls) = 1
    /\ \E o \in Outcomes(CategoryMetaPayloads) :
        LET g == get_coins_by_category_meta(args.category_id, o)
        IN  /\ replies' = Append(replies, o)
            /\ IF g.tag = "continue"
               THEN /\ calls' = Append(calls,
                        category_markets_call(args.category_id, args.page,
                                              args.per_page))
                    /\ pc' = "awaiting"
                    /\ UNCHANGED <<ret, resp>>
               ELSE /\ ret' = g
                    /\ resp' = category_coins(g)
                    /\ pc' = "done"
                    /\ UNCHANGED calls
    /\ UNCHANGED <<op, req, args, fin, fout, service>>

\* The coins/markets call of get_coins_by_category ends.
CategoryMarketsResponse ==
    /\ pc = "awaiting"
    /\ op = "get_coins_by_category"
    /\ Len(calls) = 2
    /\ \E o \in Outcomes(MarketsPayloads) :
        LET g == get_coins_by_category(args.category_id, replies[1].json, o)
        IN  /\ replies' = Append(replies, o)
            /\ ret' = g
            /\ resp' = category_coins(g)
    /\ pc' = "done"
    /\ UNCHANGED <<op, req, args, calls, fin, fout, service>>

\* The response has been sent; nothing of the request is kept.
Close ==
    /\ pc = "done"
    /\ pc' = "idle"
    /\ op' = "none"
    /\ req' = NoReq
    /\ args' = NoArgs
    /\ calls' = <<>>
    /\ replies' = <<>>
    /\ ret' = NoRet
    /\ resp' = NoResp
    /\ UNCHANGED <<fin, fout, service>>

Next ==
    \/ QueryRejected
    \/ ListCoinsRequest
    \/ ListCoinsResponse
    \/ ListCategoriesRequest
    \/ ListCategoriesResponse
    \/ GetCoinRequest
    \/ GetCoinResponse
    \/ CategoryCoinsRequest
    \/ CategoryMetaResponse
    \/ CategoryMarketsResponse
    \/ Close

Spec == Init /\ [][Next]_vars

(***************************************************************************)
(* C1: validate_pagination_params(page, per_page, 100) always returns, and *)
(* returns (max(page, 1), p) with p = 10 when per_page < 1 and             *)
(* p = min(per_page, 100) otherwise.                                       *)
(***************************************************************************)
C1_Normalized ==
    fout.tag = "ret" =>
        /\ fout.page = (IF fin.page >= 1 THEN fin.page ELSE 1)
        /\ fin.page <= 0 => fout.page = 1
        /\ fin.per_page < 1 => fout.per_page = 10
        /\ fin.per_page > 100 => fout.per_page = 100
        /\ (fin.per_page >= 1 /\ fin.per_page <= 100) => fout.per_page = fin.per_page

C1_Witness ==
    /\ fout.tag = "ret"
    /\ fin.page <= 0
    /\ fin.per_page < 1
    /\ fout.per_page = 10

(***************************************************************************)
(* C5: for normalized page >= 1 and per_page >= 1, paginate_response       *)
(* returns the window of per_page items starting at (page-1)*per_page      *)
(* (shorter at the end of the sequence, empty at or beyond its length),    *)
(* total = the length of the whole sequence, and echoes page and per_page. *)
(***************************************************************************)
C5_Window ==
    (fout.tag = "ret" /\ fin.fn = "paginate_response"
        /\ fin.page >= 1 /\ fin.per_page >= 1) =>
        LET start == (fin.page - 1) * fin.per_page
            n == Len(fin.items)
            k == IF start >= n THEN 0
                 ELSE IF n - start < fin.per_page THEN n - start ELSE fin.per_page
        IN  /\ Len(fout.items) = k
            /\ \A i \in 1..k : fout.items[i] = fin.items[start + i]
            /\ start >= n => fout.items = <<>>
            /\ fout.total = n
            /\ fout.page = fin.page
            /\ fout.per_page = fin.per_page

\* a partial last page: fewer than per_page items remain
C5_Witness ==
    /\ fout.tag = "ret"
    /\ fin.fn = "paginate_response"
    /\ fin.page >= 2
    /\ fin.per_page >= 2
    /\ Len(fout.items) >= 1
    /\ Len(fout.items) < fin.per_page
    /\ fout.total = MaxItems

(***************************************************************************)
(* Vocabulary of the claims about the server.                              *)
(***************************************************************************)
Done(o) == pc = "done" /\ op = o
LastReply == replies[Len(replies)]
Raised == ret.tag = "http_exception"
Returned == ret.tag = "return"
GatewayOps == {"list_coins", "list_categories", "get_coin", "get_coins_by_category"}
GatewayDone == pc = "done" /\ op \in GatewayOps

\* The raw query values with FastAPI's defaults filled in.
RawPage == QueryValue(req.page, DEFAULT_PAGE)
RawPerPage == QueryValue(req.per_page, DEFAULT_PER_PAGE)

UpperCase == "ABCDEFGHIJKLMNOPQRSTUVWXYZ"
LowerCase == "abcdefghijklmnopqrstuvwxyz"
LowerChar(c) ==
    IF \E i \in 1..Len(UpperCase) : SubSeq(UpperCase, i, i) = c
    THEN LET i == CHOOSE j \in 1..Len(UpperCase) : SubSeq(UpperCase, j, j) = c
         IN  SubSeq(LowerCase, i, i)
    ELSE c
RECURSIVE Lower(_)
Lower(s) == IF s = "" THEN ""
            ELSE LowerChar(SubSeq(s, 1, 1)) \o Lower(SubSeq(s, 2, Len(s)))
\* s contains sub, letter case ignored.
ContainsText(s, sub) ==
    \E i \in 1..(Len(s) - Len(sub) + 1) :
        SubSeq(Lower(s), i, i + Len(sub) - 1) = Lower(sub)

(***************************************************************************)
(* C2: every successful (200) response of /api/v1/coins has page >= 1,     *)
(* 1 <= per_page <= 100 and at most per_page items, whatever the request   *)
(* parameters and the upstream payload were.                               *)
(***************************************************************************)
C2_EnvelopeInvariant ==
    (Done("list_coins") /\ resp.status = 200) =>
        /\ resp.body.page >= 1
        /\ resp.body.per_page >= 1
        /\ resp.body.per_page <= 100
        /\ Len(resp.body.items) <= resp.body.per_page

\* the provider sent more items than per_page and the page came back full
C2_Witness ==
    /\ Done("list_coins")
    /\ resp.status = 200
    /\ replies[1].kind = "ok"
    /\ replies[1].json.t = "list"
    /\ Len(replies[1].json.xs) > resp.body.per_page
    /\ Len(resp.body.items) = resp.body.per_page

(***************************************************************************)
(* C3: a successful response of /api/v1/coins echoes the normalized page   *)
(* and per_page, and its total is page*per_page + per_page when the        *)
(* returned items are non-empty and page*per_page when they are empty.     *)
(***************************************************************************)
C3_SynthesizedTotal ==
    (Done("list_coins") /\ resp.status = 200) =>
        LET p == IF RawPage >= 1 THEN RawPage ELSE 1
            pp == IF RawPerPage < 1 THEN 10
                  ELSE IF RawPerPage > 100 THEN 100 ELSE RawPerPage
        IN  /\ resp.body.page = p
            /\ resp.body.per_page = pp
            /\ resp.body.items # <<>> => resp.body.total = p * pp + pp
            /\ resp.body.items = <<>> => resp.body.total = p * pp

C3_Witness ==
    /\ Done("list_coins")
    /\ resp.status = 200
    /\ resp.body.page = 2
    /\ resp.body.per_page = 3
    /\ Len(resp.body.items) = 3
    /\ resp.body.total = 9

\* the empty page of C3
C3_WitnessEmpty ==
    /\ Done("list_coins")
    /\ resp.status = 200
    /\ resp.body.page = 2
    /\ resp.body.items = <<>>
    /\ resp.body.total = 2 * resp.body.per_page

(***************************************************************************)
(* C4: get_coins_list(page, per_page) issues exactly one upstream call,    *)
(* coins/markets with per_page + 1, the given page and order               *)
(* market_cap_desc; for an upstream payload of n records it returns the    *)
(* first min(n, per_page) of them, reshaped, in upstream order, and for an *)
(* empty payload the empty list.                                           *)
(***************************************************************************)
C4_OverfetchAndTruncate ==
    (op = "list_coins" /\ pc \in {"awaiting", "done"}) =>
        /\ Len(calls) = 1
        /\ calls[1].endpoint = "coins/markets"
        /\ calls[1].params.per_page = args.per_page + 1
        /\ calls[1].params.page = args.page
        /\ calls[1].params.order = "market_cap_desc"
        /\ (/\ pc = "done"
            /\ replies[1].kind = "ok"
            /\ replies[1].json.t = "list"
            /\ \A i \in DOMAIN replies[1].json.xs : replies[1].json.xs[i].t = "dict")
           => LET xs == replies[1].json.xs
                  n == Len(xs)
                  k == IF n < args.per_page THEN n ELSE args.per_page
              IN  /\ Returned
                  /\ Len(ret.val) = k
                  /\ \A i \in 1..k :
                        /\ ret.val[i].t = "dict"
                        /\ DOMAIN ret.val[i].d = CoinFields
                        /\ \A f \in CoinFields :
                            ret.val[i].d[f] =
                                (IF f \in DOMAIN xs[i].d THEN xs[i].d[f] ELSE JNull)

\* 101 items for per_page = 100: the first 100 come back, in order
C4_Witness ==
    /\ Done("list_coins")
    /\ args.per_page = MAX_PER_PAGE
    /\ calls[1].params.per_page = MAX_PER_PAGE + 1
    /\ replies[1].kind = "ok"
    /\ replies[1].json.t = "list"
    /\ Len(replies[1].json.xs) = MAX_PER_PAGE + 1
    /\ Returned
    /\ Len(ret.val) = MAX_PER_PAGE
    /\ ret.val[MAX_PER_PAGE].d.market_cap_rank = JNum(MAX_PER_PAGE)

(***************************************************************************)
(* C6: an upstream HTTP 429 during any gateway operation ends it with an   *)
(* error of status 429 whose message contains "rate limit" (letter case    *)
(* aside: the text is "Rate limit exceeded. ..."); the caller gets 429,    *)
(* never 404, 500 or 503.                                                  *)
(***************************************************************************)
C6_RateLimited ==
    (op \in GatewayOps /\ replies # <<>>
        /\ LastReply.kind = "http_error" /\ LastReply.status = 429) =>
        /\ pc = "done"
        /\ Raised
        /\ ret.status_code = 429
        /\ ContainsText(ret.detail, "rate limit")
        /\ resp.status = 429

\* a 429 on the coin-detail call
C6_Witness ==
    /\ Done("get_coin")
    /\ LastReply.kind = "http_error"
    /\ LastReply.status = 429
    /\ ret.status_code = 429
    /\ resp.status = 429

(***************************************************************************)
(* C7: an upstream HTTP error with a status other than 429 during any      *)
(* gateway operation ends it with an error carrying exactly the upstream   *)
(* status code (a 404 on the category-metadata call or on the coin-detail  *)
(* call gives 404).                                                        *)
(***************************************************************************)
C7_UpstreamStatusKept ==
    (op \in GatewayOps /\ replies # <<>>
        /\ LastReply.kind = "http_error" /\ LastReply.status # 429) =>
        /\ pc = "done"
        /\ Raised
        /\ ret.status_code = LastReply.status
        /\ resp.status = LastReply.status

\* a 404 on the category-metadata call: no coins/markets call follows
C7_Witness ==
    /\ Done("get_coins_by_category")
    /\ Len(calls) = 1
    /\ LastReply.kind = "http_error"
    /\ LastReply.status = 404
    /\ ret.status_code = 404

(***************************************************************************)
(* C8: every upstream call is made with the fixed timeout of 200, and a    *)
(* transport failure of it (connection error, timeout expired) ends the    *)
(* gateway operation with a ServiceUnavailable error, status 503.          *)
(***************************************************************************)
C8_TransportFailure503 ==
    /\ \A i \in DOMAIN calls : calls[i].timeout = 200
    /\ (op \in GatewayOps /\ replies # <<>>
            /\ LastReply.kind = "request_exception") =>
        /\ pc = "done"
        /\ Raised
        /\ ret.status_code = 503
        /\ resp.status = 503

\* the timeout expires on the second call of the category-coins operation
C8_Witness ==
    /\ Done("get_coins_by_category")
    /\ Len(replies) = 2
    /\ LastReply.kind = "request_exception"
    /\ LastReply.msg = "Read timed out"
    /\ ret.status_code = 503

(***************************************************************************)
(* C9 as stated: whenever get_coin_by_id fails, whatever the cause, the    *)
(* error is NotFound with status 404 for that coin id.                     *)
(***************************************************************************)
C9_AnyFailureIs404 ==
    (Done("get_coin") /\ Raised) =>
        /\ ret.status_code = 404
        /\ ret.detail = "Coin not found: " \o args.coin_id

(***************************************************************************)
(* C9 amended: get_coin_by_id reports as NotFound (404, for that coin id)  *)
(* every failure that is not an upstream HTTP error or a transport         *)
(* failure: an exception of the upstream call that is not a request        *)
(* error, or a failure while reshaping the payload.  An upstream HTTP      *)
(* error keeps its status (429 stays 429) and a transport failure gives    *)
(* 503, as in the other operations.                                        *)
(***************************************************************************)
C9_UnexpectedFailureIs404 ==
    (Done("get_coin") /\ Raised) =>
        LET o == LastReply IN
        /\ (\/ o.kind = "exception"
            \/ o.kind = "ok"
            \/ (o.kind = "bad_json" /\ ~o.is_request_exception))
           => /\ ret.status_code = 404
              /\ ret.detail = "Coin not found: " \o args.coin_id
              /\ resp.status = 404
        /\ o.kind = "http_error" => ret.status_code = o.status
        /\ (\/ o.kind = "request_exception"
            \/ (o.kind = "bad_json" /\ o.is_request_exception))
           => ret.status_code = 503

\* a payload that cannot be reshaped (market_data is null)
C9_Witness ==
    /\ Done("get_coin")
    /\ LastReply.kind = "ok"
    /\ LastReply.json.t = "dict"
    /\ "market_data" \in DOMAIN LastReply.json.d
    /\ Raised
    /\ ret.status_code = 404

(***************************************************************************)
(* C10: in get_coins_list, get_coin_categories and get_coins_by_category   *)
(* a failure that is neither an upstream HTTP error nor a transport        *)
(* failure (an exception of the upstream call that is not a request        *)
(* error, or a failure while reshaping a payload that did arrive) ends the *)
(* operation with an InternalError, status 500.                            *)
(***************************************************************************)
C10_UnexpectedFailureIs500 ==
    (pc = "done" /\ Raised
        /\ op \in {"list_coins", "list_categories", "get_coins_by_category"}
        /\ (\/ LastReply.kind = "exception"
            \/ LastReply.kind = "ok"
            \/ (LastReply.kind = "bad_json" /\ ~LastReply.is_request_exception)))
    =>  /\ ret.status_code = 500
        /\ resp.status = 500

\* a coins/markets payload with an entry that is not a record
C10_Witness ==
    /\ Done("list_coins")
    /\ LastReply.kind = "ok"
    /\ LastReply.json.t = "list"
    /\ Raised
    /\ ret.status_code = 500

(***************************************************************************)
(* C11: when the category-metadata call of get_coins_by_category succeeds  *)
(* with an empty or none payload, the operation returns                    *)
(* {category: category_id, coins: []}, raises no error and issues no       *)
(* coins/markets call.                                                     *)
(***************************************************************************)
EmptyPayload(j) ==
    \/ j.t = "null"
    \/ (j.t = "dict" /\ DOMAIN j.d = {})
    \/ (j.t = "list" /\ Len(j.xs) = 0)
    \/ (j.t = "str" /\ Len(j.s) = 0)

C11_AbsentCategoryIsEmptyResult ==
    (op = "get_coins_by_category" /\ replies # <<>>
        /\ replies[1].kind = "ok" /\ EmptyPayload(replies[1].json)) =>
        /\ pc = "done"
        /\ Len(calls) = 1
        /\ calls[1].endpoint = "coins/categories/" \o args.category_id
        /\ Returned
        /\ ret.val.category = JStr(args.category_id)
        /\ ret.val.coins = <<>>
        /\ resp.status = 200
        /\ resp.body = [category |-> args.category_id, coins |-> <<>>]

\* the provider answers the metadata call with an empty record
C11_Witness ==
    /\ Done("get_coins_by_category")
    /\ replies[1].kind = "ok"
    /\ replies[1].json = EmptyDict
    /\ Returned
    /\ ret.val.coins = <<>>
    /\ Len(calls) = 1

(***************************************************************************)
(* C12: get_coin_categories returns, for a sequence payload, exactly one   *)
(* Category per well-formed record entry, in upstream order, with id taken *)
(* from category_id ("" when absent), silently skipping every other entry; *)
(* for a payload that is not a sequence it returns the empty list; it      *)
(* raises no error in either case.                                         *)
(***************************************************************************)
StringIfPresent(e, key) == key \in DOMAIN e.d => e.d[key].t = "str"
WellFormedRecord(e) ==
    /\ e.t = "dict"
    /\ StringIfPresent(e, "category_id")
    /\ StringIfPresent(e, "name")
ExpectedCategory(e) ==
    [id |-> IF "category_id" \in DOMAIN e.d THEN e.d.category_id.s ELSE "",
     name |-> IF "name" \in DOMAIN e.d THEN e.d.name.s ELSE ""]

C12_OneCategoryPerRecord ==
    (Done("list_categories") /\ replies[1].kind = "ok") =>
        /\ Returned
        /\ IF replies[1].json.t = "list"
           THEN LET good == SelectSeq(replies[1].json.xs, WellFormedRecord)
                IN  /\ Len(ret.val) = Len(good)
                    /\ \A i \in DOMAIN good : ret.val[i] = ExpectedCategory(good[i])
           ELSE ret.val = <<>>

\* C12 restricted to payloads whose record entries carry only string
\* category_id and name: there the statement holds.
C12_HoldsForStringFields ==
    (/\ Done("list_categories")
     /\ replies[1].kind = "ok"
     /\ replies[1].json.t = "list" =>
            \A i \in DOMAIN replies[1].json.xs :
                replies[1].json.xs[i].t = "dict"
                    => WellFormedRecord(replies[1].json.xs[i]))
    => C12_OneCategoryPerRecord

\* a payload mixing records and a non-record entry
C12_WitnessSkipped ==
    /\ Done("list_categories")
    /\ replies[1].kind = "ok"
    /\ replies[1].json.t = "list"
    /\ Len(replies[1].json.xs) = 3
    /\ Returned
    /\ Len(ret.val) = 2
    /\ ret.val[1].id = ""
    /\ ret.val[2].id = "defi"

(***************************************************************************)
(* C13: what get_coin_by_id returns has current_price and market_cap equal *)
(* to the payload's market_data.current_price.<currency> and               *)
(* market_data.market_cap.<currency> for the configured default currency   *)
(* (null when market_data, the field or that currency is missing), and     *)
(* links with exactly the keys homepage, blockchain_site and               *)
(* official_forum_url, each the provider's value or the empty sequence     *)
(* when the provider omits it.  A payload with the nested records is       *)
(* reshaped, not refused.                                                  *)
(***************************************************************************)
LinkKeys == {"homepage", "blockchain_site", "official_forum_url"}

NestedForCurrency(data, field) ==
    IF /\ "market_data" \in DOMAIN data.d
       /\ field \in DOMAIN data.d.market_data.d
       /\ default_currency \in DOMAIN data.d.market_data.d[field].d
    THEN data.d.market_data.d[field].d[default_currency]
    ELSE JNull

HasNestedMarketData(data) ==
    /\ data.t = "dict"
    /\ "market_data" \in DOMAIN data.d
    /\ data.d.market_data.t = "dict"
    /\ \A f \in {"current_price", "market_cap"} :
        /\ f \in DOMAIN data.d.market_data.d
        /\ data.d.market_data.d[f].t = "dict"
    /\ "links" \in DOMAIN data.d => data.d.links.t = "dict"

C13_DetailReshaping ==
    (Done("get_coin") /\ replies[1].kind = "ok") =>
        LET data == replies[1].json IN
        /\ HasNestedMarketData(data) => Returned
        /\ Returned =>
            /\ ret.val.d.current_price = NestedForCurrency(data, "current_price")
            /\ ret.val.d.market_cap = NestedForCurrency(data, "market_cap")
            /\ ret.val.d.links.t = "dict"
            /\ DOMAIN ret.val.d.links.d = LinkKeys
            /\ \A k \in LinkKeys :
                ret.val.d.links.d[k] =
                    (IF "links" \in DOMAIN data.d /\ k \in DOMAIN data.d.links.d
                     THEN data.d.links.d[k] ELSE JList(<<>>))

\* prices in two currencies, links with only the homepage
C13_Witness ==
    /\ Done("get_coin")
    /\ replies[1].kind = "ok"
    /\ HasNestedMarketData(replies[1].json)
    /\ "usd" \in DOMAIN replies[1].json.d.market_data.d.current_price.d
    /\ Returned
    /\ ret.val.d.current_price = JNum(50000)
    /\ ret.val.d.market_cap = JNum(1000000)
    /\ ret.val.d.links.d.blockchain_site = JList(<<>>)

(***************************************************************************)
(* C14: a request served by a gateway operation causes exactly one         *)
(* upstream call, except the category-coins request, which causes at most  *)
(* two, one after the other: the coins/markets call is issued only after   *)
(* the category-metadata call has returned successfully with a non-empty   *)
(* payload.  A failed call is never retried: it is the request's last      *)
(* call and the request ends with an error.                                *)
(***************************************************************************)
C14_UpstreamCalls ==
    (op \in GatewayOps) =>
        /\ Len(calls) >= 1
        /\ op # "get_coins_by_category" => Len(calls) = 1
        /\ Len(calls) <= 2
        /\ Len(calls) = 2 =>
            /\ calls[1].endpoint = "coins/categories/" \o args.category_id
            /\ calls[2].endpoint = "coins/markets"
            /\ replies[1].kind = "ok"
            /\ ~EmptyPayload(replies[1].json)
        \* one call at a time: a call is issued only when every earlier one
        \* has been answered
        /\ pc = "awaiting" => Len(calls) = Len(replies) + 1
        /\ pc = "done" => Len(calls) = Len(replies)
        /\ \A i \in DOMAIN replies :
            replies[i].kind # "ok" =>
                /\ i = Len(calls)
                /\ pc = "done"
                /\ Raised
                /\ resp.status >= 400

\* the second call of a category-coins request fails: no third call
C14_Witness ==
    /\ Done("get_coins_by_category")
    /\ Len(calls) = 2
    /\ Len(replies) = 2
    /\ replies[2].kind = "http_error"
    /\ Raised
    /\ resp.status = replies[2].status

(***************************************************************************)
(* C16: with a non-empty category-metadata record, get_coins_by_category   *)
(* passes page and per_page to the coins/markets call unchanged (no +1),   *)
(* together with the category filter, and returns one reshaped coin per    *)
(* upstream item, in upstream order and without truncation, paired with    *)
(* the metadata's name (the input category id when it has no name).        *)
(***************************************************************************)
C16_CategoryPassThrough ==
    (op = "get_coins_by_category" /\ Len(calls) = 2) =>
        /\ calls[2].endpoint = "coins/markets"
        /\ calls[2].params.page = args.page
        /\ calls[2].params.per_page = args.per_page
        /\ calls[2].params.category = args.category_id
        /\ calls[2].params.order = "market_cap_desc"
        /\ (/\ pc = "done"
            /\ replies[1].json.t = "dict"
            /\ replies[2].kind = "ok"
            /\ replies[2].json.t = "list"
            /\ \A i \in DOMAIN replies[2].json.xs : replies[2].json.xs[i].t = "dict")
           => LET xs == replies[2].json.xs
                  meta == replies[1].json.d
              IN  /\ Returned
                  /\ ret.val.category =
                        (IF "name" \in DOMAIN meta THEN meta.name
                         ELSE JStr(args.category_id))
                  /\ Len(ret.val.coins) = Len(xs)
                  /\ \A i \in DOMAIN xs :
                        /\ DOMAIN ret.val.coins[i].d = CoinFields
                        /\ \A f \in CoinFields :
                            ret.val.coins[i].d[f] =
                                (IF f \in DOMAIN xs[i].d THEN xs[i].d[f] ELSE JNull)

\* more upstream items than per_page, all returned, the name missing
C16_Witness ==
    /\ Done("get_coins_by_category")
    /\ Len(calls) = 2
    /\ replies[1].json.t = "dict"
    /\ "name" \notin DOMAIN replies[1].json.d
    /\ replies[2].kind = "ok"
    /\ replies[2].json.t = "list"
    /\ Returned
    /\ Len(ret.val.coins) > args.per_page
    /\ ret.val.category = JStr(args.category_id)

(***************************************************************************)
(* C17: on /api/v1/coins the synthesized total exceeds page*per_page only  *)
(* when the provider returned more than per_page items for the request,    *)
(* that is when the over-fetched (per_page+1)-th item was present.         *)
(***************************************************************************)
C17_TotalSignalsExtraItem ==
    (Done("list_coins") /\ resp.status = 200
        /\ resp.body.total > resp.body.page * resp.body.per_page) =>
        /\ replies[1].json.t = "list"
        /\ Len(replies[1].json.xs) > resp.body.per_page

(***************************************************************************)
(* The coin list read page after page from a provider that holds a fixed   *)
(* market-cap-ordered listing.  fin holds the provider's listing and the   *)
(* page size the client keeps; fout the pages the client has received.     *)
(***************************************************************************)
MaxCatalog == 7
MaxPagedPerPage == 3
MaxPagedPage == 3

\* The provider's listing of n coins, best rank first.
Catalog(n) == [k \in 1..n |-> RankedCoin(k)]

\* The provider's answer to ?page=p&per_page=s: the items at 0-based
\* indices (p-1)*s .. p*s-1 of its listing, as many as exist.
ProviderPage(items, p, s) == PySlice(items, (p - 1) * s, p * s)

PagedInit ==
    /\ ServerIdle
    /\ fin \in [fn : {"provider"}, n : 0..MaxCatalog, per_page : 1..MaxPagedPerPage]
    /\ fout = [tag |-> "pages", pages |-> <<>>]

\* The client asks for the page after the last one it received.
PagedRequest ==
    /\ pc = "idle"
    /\ fin.fn = "provider"
    /\ Len(fout.pages) < MaxPagedPage
    /\ LET r == [tag |-> "request", path |-> "/api/v1/coins",
                 page |-> JNum(Len(fout.pages) + 1), per_page |-> JNum(fin.per_page)]
           n == validate_pagination_params(QueryValue(r.page, DEFAULT_PAGE),
                    QueryValue(r.per_page, DEFAULT_PER_PAGE), MAX_PER_PAGE)
       IN  /\ QueryValid(r)
           /\ req' = r
           /\ args' = [tag |-> "args", page |-> n[1], per_page |-> n[2]]
           /\ calls' = <<get_coins_list_call(n[1], n[2])>>
    /\ op' = "list_coins"
    /\ pc' = "awaiting"
    /\ UNCHANGED <<replies, ret, resp, fin, fout, service>>

\* The provider serves the page the call asked for; the handler answers.
PagedResponse ==
    /\ pc = "awaiting"
    /\ fin.fn = "provider"
    /\ LET c == calls[Len(calls)]
           o == OkOutcome(JList(ProviderPage(Catalog(fin.n), c.params.page,
                                             c.params.per_page)))
           g == get_coins_list(args.page, args.per_page, o)
       IN  /\ replies' = Append(replies, o)
           /\ ret' = g
           /\ resp' = list_coins(args.page, args.per_page, g)
    /\ pc' = "done"
    /\ UNCHANGED <<op, req, args, calls, fin, fout, service>>

\* The client keeps the page it received; the server keeps nothing.
PagedClose ==
    /\ pc = "done"
    /\ fin.fn = "provider"
    /\ fout' = [fout EXCEPT !.pages = Append(@, resp.body.items)]
    /\ pc' = "idle"
    /\ op' = "none"
    /\ req' = NoReq
    /\ args' = NoArgs
    /\ calls' = <<>>
    /\ replies' = <<>>
    /\ ret' = NoRet
    /\ resp' = NoResp
    /\ UNCHANGED <<fin, service>>

PagedNext ==
    \/ PagedRequest
    \/ PagedResponse
    \/ PagedClose

SpecPaged == PagedInit /\ [][PagedNext]_vars

\* The window of the listing that page k of size per_page stands for.
Window(items, k, per_page) ==
    LET w == PySlice(items, (k - 1) * per_page, k * per_page)
    IN  [i \in DOMAIN w |-> ReshapeCoin(w[i])]

(***************************************************************************)
(* C18: against a provider serving page p of size s as the items at        *)
(* indices (p-1)*s .. p*s-1 of a fixed listing, the k-th page received     *)
(* with a constant per_page is the window (k-1)*per_page .. k*per_page-1   *)
(* of that listing, so consecutive pages neither skip nor repeat an item.  *)
(***************************************************************************)
C18_ContiguousWindows ==
    \A k \in 1..Len(fout.pages) :
        fout.pages[k] = Window(Catalog(fin.n), k, fin.per_page)

(***************************************************************************)
(* Several requests in flight at once.  Every request has its own handler  *)
(* invocation, whose locals are the request's entries of pc, op, req,      *)
(* args, calls, replies, ret and resp; the gateway singleton (service) is  *)
(* the one object all invocations share.  A request can be overtaken at    *)
(* each of its upstream calls.                                             *)
(***************************************************************************)
NumClients == 2
Reqs == 1..NumClients

ConcPerPages == {JNull, JNum(1)}
ConcErrors ==
    {o \in ErrorOutcomes :
        \/ o.kind = "http_error" /\ o.status = 429
        \/ o.kind = "exception"}
ConcMarketsOutcomes ==
    {OkOutcome(JList(<<CoinA, CoinB>>)), OkOutcome(JList(<<>>))} \cup ConcErrors
ConcCategoryListOutcomes == {OkOutcome(JList(<<CategoryA>>))} \cup ConcErrors
ConcCoinDetailOutcomes ==
    {OkOutcome(JDict([id |-> JStr("bitcoin"), symbol |-> JStr("btc"),
                      name |-> JStr("Bitcoin"), market_data |-> FullMarketData]))}
    \cup ConcErrors
ConcCategoryMetaOutcomes ==
    {OkOutcome(JDict([name |-> JStr("DeFi Ecosystem")])), OkOutcome(JNull)}
    \cup ConcErrors

ConcInit ==
    /\ service = ServiceConfig
    /\ pc = [i \in Reqs |-> "idle"]
    /\ op = [i \in Reqs |-> "none"]
    /\ req = [i \in Reqs |-> NoReq]
    /\ args = [i \in Reqs |-> NoArgs]
    /\ calls = [i \in Reqs |-> <<>>]
    /\ replies = [i \in Reqs |-> <<>>]
    /\ ret = [i \in Reqs |-> NoRet]
    /\ resp = [i \in Reqs |-> NoResp]
    /\ fin = NoCall
    /\ fout = NoOut

ConcQueryRejected(i) ==
    /\ pc[i] = "idle"
    /\ LET r == [tag |-> "request", path |-> "/api/v1/coins",
                 page |-> JNull, per_page |-> JNum(0)]
       IN  /\ ~QueryValid(r)
           /\ req' = [req EXCEPT ![i] = r]
    /\ op' = [op EXCEPT ![i] = "rejected"]
    /\ resp' = [resp EXCEPT ![i] = ErrorResponse(422, "Unprocessable Entity")]
    /\ pc' = [pc EXCEPT ![i] = "done"]
    /\ UNCHANGED <<args, calls, replies, ret, fin, fout, service>>

ConcListCoinsRequest(i) ==
    /\ pc[i] = "idle"
    /\ \E qpp \in ConcPerPages :
        LET r == [tag |-> "request", path |-> "/api/v1/coins",
                  page |-> JNull, per_page |-> qpp]
            n == validate_pagination_params(QueryValue(r.page, DEFAULT_PAGE),
                    QueryValue(qpp, DEFAULT_PER_PAGE), MAX_PER_PAGE)
        IN  /\ QueryValid(r)
            /\ req' = [req EXCEPT ![i] = r]
            /\ args' = [args EXCEPT
                            ![i] = [tag |-> "args", page |-> n[1], per_page |-> n[2]]]
            /\ calls' = [calls EXCEPT ![i] = <<get_coins_list_call(n[1], n[2])>>]
    /\ op' = [op EXCEPT ![i] = "list_coins"]
    /\ pc' = [pc EXCEPT ![i] = "awaiting"]
    /\ UNCHANGED <<replies, ret, resp, fin, fout, service>>

ConcListCoinsResponse(i) ==
    /\ pc[i] = "awaiting"
    /\ op[i] = "list_coins"
    /\ \E o \in ConcMarketsOutcomes :
        LET g == get_coins_list(args[i].page, args[i].per_page, o)
        IN  /\ replies' = [replies EXCEPT ![i] = Append(@, o)]
            /\ ret' = [ret EXCEPT ![i] = g]
            /\ resp' = [resp EXCEPT
                            ![i] = list_coins(args[i].page, args[i].per_page, g)]
    /\ pc' = [pc EXCEPT ![i] = "done"]
    /\ UNCHANGED <<op, req, args, calls, fin, fout, service>>

ConcListCategoriesRequest(i) ==
    /\ pc[i] = "idle"
    /\ req' = [req EXCEPT ![i] = [tag |-> "request", path |-> "/api/v1/categories"]]
    /\ args' = [args EXCEPT ![i] = [tag |-> "args"]]
    /\ calls' = [calls EXCEPT ![i] = <<get_coin_categories_call>>]
    /\ op' = [op EXCEPT ![i] = "list_categories"]
    /\ pc' = [pc EXCEPT ![i] = "awaiting"]
    /\ UNCHANGED <<replies, ret, resp, fin, fout, service>>

ConcListCategoriesResponse(i) ==
    /\ pc[i] = "awaiting"
    /\ op[i] = "list_categories"
    /\ \E o \in ConcCategoryListOutcomes :
        LET g == get_coin_categories(o)
        IN  /\ replies' = [replies EXCEPT ![i] = Append(@, o)]
            /\ ret' = [ret EXCEPT ![i] = g]
            /\ resp' = [resp EXCEPT ![i] = list_categories(g)]
    /\ pc' = [pc EXCEPT ![i] = "done"]
    /\ UNCHANGED <<op, req, args, calls, fin, fout, service>>

ConcGetCoinRequest(i) ==
    /\ pc[i] = "idle"
    /\ LET id == "bitcoin"
       IN  /\ req' = [req EXCEPT ![i] = [tag |-> "request",
                        path |-> "/api/v1/coins/{coin_id}", coin_id |-> id]]
           /\ args' = [args EXCEPT ![i] = [tag |-> "args", coin_id |-> id]]
           /\ calls' = [calls EXCEPT ![i] = <<get_coin_by_id_call(id)>>]
    /\ op' = [op EXCEPT ![i] = "get_coin"]
    /\ pc' = [pc EXCEPT ![i] = "awaiting"]
    /\ UNCHANGED <<replies, ret, resp, fin, fout, service>>

\* get_coin_by_id leaves the currency it last reshaped for on the singleton.
ConcGetCoinResponse_keeps_currency(i) ==
    /\ pc[i] = "awaiting"
    /\ op[i] = "get_coin"
    /\ \E o \in ConcCoinDetailOutcomes :
        LET g == get_coin_by_id(args[i].coin_id, o)
        IN  /\ replies' = [replies EXCEPT ![i] = Append(@, o)]
            /\ ret' = [ret EXCEPT ![i] = g]
            /\ resp' = [resp EXCEPT ![i] = get_coin(g)]
    /\ pc' = [pc EXCEPT ![i] = "done"]
    /\ service' = [service EXCEPT !.default_currency = "usd"]
    /\ UNCHANGED <<op, req, args, calls, fin, fout>>

ConcGetCoinResponse(i) ==
    /\ pc[i] = "awaiting"
    /\ op[i] = "get_coin"
    /\ \E o \in ConcCoinDetailOutcomes :
        LET g == get_coin_by_id(args[i].coin_id, o)
        IN  /\ replies' = [replies EXCEPT ![i] = Append(@, o)]
            /\ ret' = [ret EXCEPT ![i] = g]
            /\ resp' = [resp EXCEPT ![i] = get_coin(g)]
    /\ pc' = [pc EXCEPT ![i] = "done"]
    /\ UNCHANGED <<op, req, args, calls, fin, fout, service>>

ConcCategoryCoinsRequest(i) ==
    /\ pc[i] = "idle"
    /\ LET id == "defi"
           r == [tag |-> "request",
                 path |-> "/api/v1/categories/{category_id}/coins",
                 category_id |-> id, page |-> JNull, per_page |-> JNull]
           n == validate_pagination_params(QueryValue(r.page, DEFAULT_PAGE),
                    QueryValue(r.per_page, DEFAULT_PER_PAGE), MAX_PER_PAGE)
       IN  /\ QueryValid(r)
           /\ req' = [req EXCEPT ![i] = r]
           /\ args' = [args EXCEPT ![i] = [tag |-> "args", category_id |-> id,
                                           page |-> n[1], per_page |-> n[2]]]
           /\ calls' = [calls EXCEPT ![i] = <<category_meta_call(id)>>]
    /\ op' = [op EXCEPT ![i] = "get_coins_by_category"]
    /\ pc' = [pc EXCEPT ![i] = "awaiting"]
    /\ UNCHANGED <<replies, ret, resp, fin, fout, service>>

ConcCategoryMetaResponse(i) ==
    /\ pc[i] = "awaiting"
    /\ op[i] = "get_coins_by_category"
    /\ Len(calls[i]) = 1
    /\ \E o \in ConcCategoryMetaOutcomes :
        LET g == get_coins_by_category_meta(args[i].category_id, o)
        IN  /\ replies' = [replies EXCEPT ![i] = Append(@, o)]
            /\ IF g.tag = "continue"
               THEN /\ calls' = [calls EXCEPT ![i] = Append(@,
                        category_markets_call(args[i].category_id, args[i].page,
                                              args[i].per_page))]
                    /\ UNCHANGED <<pc, ret, resp>>
               ELSE /\ ret' = [ret EXCEPT ![i] = g]
                    /\ resp' = [resp EXCEPT ![i] = category_coins(g)]
                    /\ pc' = [pc EXCEPT ![i] = "done"]
                    /\ UNCHANGED calls
    /\ UNCHANGED <<op, req, args, fin, fout, service>>

ConcCategoryMarketsResponse(i) ==
    /\ pc[i] = "awaiting"
    /\ op[i] = "get_coins_by_category"
    /\ Len(calls[i]) = 2
    /\ \E o \in ConcMarketsOutcomes :
        LET g == get_coins_by_category(args[i].category_id, replies[i][1].json, o)
        IN  /\ replies' = [replies EXCEPT ![i] = Append(@, o)]
            /\ ret' = [ret EXCEPT ![i] = g]
            /\ resp' = [resp EXCEPT ![i] = category_coins(g)]
    /\ pc' = [pc EXCEPT ![i] = "done"]
    /\ UNCHANGED <<op, req, args, calls, fin, fout, service>>

\* The response of request i has been sent; its invocation is gone.
ConcClose(i) ==
    /\ pc[i] = "done"
    /\ pc' = [pc EXCEPT ![i] = "idle"]
    /\ op' = [op EXCEPT ![i] = "none"]
    /\ req' = [req EXCEPT ![i] = NoReq]
    /\ args' = [args EXCEPT ![i] = NoArgs]
    /\ calls' = [calls EXCEPT ![i] = <<>>]
    /\ replies' = [replies EXCEPT ![i] = <<>>]
    /\ ret' = [ret EXCEPT ![i] = NoRet]
    /\ resp' = [resp EXCEPT ![i] = NoResp]
    /\ UNCHANGED <<fin, fout, service>>

ConcNext ==
    \E i \in Reqs :
        \/ ConcQueryRejected(i)
        \/ ConcListCoinsRequest(i)
        \/ ConcListCoinsResponse(i)
        \/ ConcListCategoriesRequest(i)
        \/ ConcListCategoriesResponse(i)
        \/ ConcGetCoinRequest(i)
        \/ ConcGetCoinResponse(i)
        \/ ConcCategoryCoinsRequest(i)
        \/ ConcCategoryMetaResponse(i)
        \/ ConcCategoryMarketsResponse(i)
        \/ ConcClose(i)

SpecConc == ConcInit /\ [][ConcNext]_vars

\* Everything the invocation serving request i holds.
Invocation(i) ==
    <<pc[i], op[i], req[i], args[i], calls[i], replies[i], ret[i], resp[i]>>

\* Two requests with the same parameters whose upstream calls were answered
\* alike are at the same point with the same calls, result and response.
OwnInputsOnly ==
    \A i, j \in Reqs :
        (req[i] = req[j] /\ replies[i] = replies[j]) =>
            Invocation(i) = Invocation(j)

\* A step is one request's: it leaves the singleton and every other
\* request's invocation as they were.
NoSharedWrites ==
    /\ service' = service
    /\ \E i \in Reqs : \A j \in Reqs \ {i} : Invocation(j)' = Invocation(j)

(***************************************************************************)
(* C15: under any interleaving of concurrent requests, what a request      *)
(* calls, gets and answers is a function of its own parameters, the fixed  *)
(* configuration and the replies to its own calls, and no step of a        *)
(* request, failed or successful, changes the gateway singleton or the     *)
(* state of another request.                                               *)
(***************************************************************************)
C15_Independent == []OwnInputsOnly /\ [][NoSharedWrites]_vars

\* A request has failed on its metadata call while another with the same
\* parameters is between its two upstream calls.
C15_Witness ==
    \E i, j \in Reqs :
        /\ i # j
        /\ req[i] = req[j]
        /\ op[i] = "get_coins_by_category"
        /\ pc[i] = "done" /\ resp[i].status >= 400
        /\ pc[j] = "awaiting" /\ Len(replies[j]) = 1

====
